---- MODULE Spec2Model ----
(***************************************************************************)
(* A model of the straits babel plugin (src/plugin.js): the Program        *)
(* visitor that turns `use traits * from e` / `obj.*name` placeholders     *)
(* (`_StraitsProvider: e` labeled statements and `obj._Straits.name`       *)
(* member expressions) into resolver calls and dynamic-key accesses, and   *)
(* of the GET_SYMBOL routine it injects.                                   *)
(*                                                                         *)
(* The unit is abstracted to what the visitor reads and writes: the tree   *)
(* of blocks, the provider statements of every block, the trait accesses   *)
(* with the block they sit in, the nodes added to the unit, one string     *)
(* literal and one template element.  Every provider statement carries an  *)
(* expression and sits directly in a block, as the input contract says.    *)
(***************************************************************************)
EXTENDS Integers, Sequences, FiniteSets, TLC

\* ---------------------------------------------------------------- bounds
NBlocks == 3
MaxProviders == 3
MaxAccess == 2
MaxStrLen == 3
MaxSymbolSets == 3

\* ------------------------------------------------------------ vocabulary
Program == 0
Blocks == 0 .. (NBlocks - 1)
NoBlock == Program - 1

TraitNameList == <<"one", "value">>
TraitNames == {TraitNameList[i] : i \in DOMAIN TraitNameList}
\* the identifier used as the dynamic key of a computed access `obj.*[k]`
KeyName == "k"
NoId == <<>>

\* characters of literal text, cut where the two regular expressions cut
Chars == {".", "_Straits", "Provider", ":", "x"}

VARIABLES
    \* the unit's tree
    parent,          \* block -> enclosing block (NoBlock for the Program)
    stmts,           \* provider statements in the tree: <<block, position>>
    acc,             \* member expressions that are or were trait accesses
    body,            \* nodes of the Program body, first to last
    decls,           \* const declarators inserted by finalize
    strLit,          \* a StringLiteral's value
    tplLit,          \* a TemplateElement's value: [raw, cooked]
    \* one run of the Program visitor
    input,           \* the tree the run started from
    run,             \* 1: first run, 2: run on the first run's output
    firstOutput,     \* the tree the first run ended with
    pc,
    nsOrder,         \* keys of the traitNamespaces Map, in insertion order
    traitNamespaces, \* block -> TraitNamespace
    getSymbolIdentifier,
    uidCount,        \* identifiers handed out by generateUidIdentifier
    idx,             \* position of the running for-of loop in nsOrder
    \* one call of the injected GET_SYMBOL
    targetSymName, symbolSets, symbol, ri, rpc

treeVars == <<parent, stmts, acc, body, decls, strLit, tplLit>>
passVars == <<input, run, firstOutput, pc, nsOrder, traitNamespaces,
              getSymbolIdentifier, uidCount, idx>>
rtVars == <<targetSymName, symbolSets, symbol, ri, rpc>>
vars == <<treeVars, passVars, rtVars>>

Tree ==
    [stmts |-> stmts, acc |-> acc, body |-> body, decls |-> decls,
     strLit |-> strLit, tplLit |-> tplLit]

Range(s) == {s[i] : i \in DOMAIN s}

\* ------------------------------------------------------------ the blocks
\* blockPath, blockPath.parentPath, ... up to the Program
RECURSIVE PathChain(_)
PathChain(b) ==
    IF b = NoBlock THEN {} ELSE {b} \cup PathChain(parent[b])

Children(b) == {c \in Blocks : parent[c] = b}

\* the blocks inside block c, c included
Subtree(c) == {b \in Blocks : c \in PathChain(b)}

\* an access is a marker while the identifier `_Straits` is in it
IsMarker(a) == a.kind \in {"trait", "traitComputed"}

\* ------------------------------------------------- TraitNamespace, 23-81
generateUidIdentifier(name, n) == <<name, n + 1>>

\* the expression node of a provider statement
Expression(p) == [expressionOf |-> p]

TraitNamespace(path) ==
    [path |-> path, blockPath |-> path[1], providers |-> {path},
     symbols |-> <<>>]

addProvider(ns, p) == [ns EXCEPT !.providers = @ \cup {p}]

RECURSIVE addProviders(_, _)
addProviders(ns, ps) ==
    IF ps = {} THEN ns
    ELSE LET p == CHOOSE q \in ps : TRUE
         IN  addProviders(addProvider(ns, p), ps \ {p})

\* provideSymbol without the lookup: a new identifier on every call
provideSymbolNoMemo(symbols, symName, n) ==
    [symbols |-> (symName :> generateUidIdentifier(symName, n)) @@ symbols,
     id |-> generateUidIdentifier(symName, n),
     uid |-> n + 1]

\* provideSymbol: the memoized identifier of symName, a fresh one otherwise
provideSymbol(symbols, symName, n) ==
    IF symName \in DOMAIN symbols
    THEN [symbols |-> symbols, id |-> symbols[symName], uid |-> n]
    ELSE [symbols |-> (symName :> generateUidIdentifier(symName, n)) @@ symbols,
          id |-> generateUidIdentifier(symName, n),
          uid |-> n + 1]

\* finalize: one declarator per entry of symbols, inserted before this.path
finalize(ns, getSymbol) ==
    IF DOMAIN ns.symbols = {} THEN {}
    ELSE {[before |-> ns.path, id |-> ns.symbols[name], name |-> name,
           callee |-> getSymbol,
           args |-> {Expression(p) : p \in ns.providers}] :
             name \in DOMAIN ns.symbols}

\* remove: this.path, the statement the namespace was created from, is removed
remove(ns, tree) == tree \ {ns.path}

\* finalCheck that never throws
finalCheckNoThrow(accesses) == "done"

\* finalCheck: throws when an identifier `_Straits` is left in the tree
finalCheck(accesses) ==
    IF \E i \in DOMAIN accesses : IsMarker(accesses[i])
    THEN "error" ELSE "done"

\* ------------------------------------------------ step 3, lines 159-223
\* the traversal without the BlockStatement visitor: nothing is skipped
RECURSIVE TraversedBlocksNoSkip(_)
TraversedBlocksNoSkip(b) ==
    {b} \cup UNION {TraversedBlocksNoSkip(c) : c \in Children(b)}

\* blockPath.traverse with the BlockStatement visitor: a sub-block that is
\* a key of traitNamespaces is skipped with everything inside it
RECURSIVE TraversedBlocks(_)
TraversedBlocks(b) ==
    {b} \cup UNION {TraversedBlocks(c) :
                      c \in Children(b) \ DOMAIN traitNamespaces}

\* the Identifier visitor without the test of symbolPath.node.computed
IdentifierNoComputedCheck(st, i) ==
    LET a == st.acc[i]
        r == provideSymbol(st.symbols, a.name, st.uid)
    IN  IF ~IsMarker(a) THEN st
        ELSE [acc |-> [st.acc EXCEPT ![i] =
                         [@ EXCEPT !.kind = "dynamic", !.key = r.id]],
              symbols |-> r.symbols, uid |-> r.uid]

\* the Identifier visitor on access i; st = [acc, symbols, uid]
Identifier(st, i) ==
    LET a == st.acc[i]
        r == provideSymbol(st.symbols, a.name, st.uid)
    IN  IF ~IsMarker(a) THEN st
        ELSE IF a.kind = "traitComputed"
        THEN [st EXCEPT !.acc[i].kind = "plain"]
        ELSE [acc |-> [st.acc EXCEPT ![i] =
                         [@ EXCEPT !.kind = "dynamic", !.key = r.id]],
              symbols |-> r.symbols, uid |-> r.uid]

\* the accesses of the traversed blocks, visited in document order
RECURSIVE traverse(_, _, _)
traverse(st, i, blocks) ==
    IF i > Len(st.acc) THEN st
    ELSE traverse(IF st.acc[i].block \in blocks THEN Identifier(st, i) ELSE st,
                  i + 1, blocks)

\* ----------------------------------------------- step 2, lines 145-157
\* the walk that stops at the first ancestor found in traitNamespaces
RECURSIVE InheritNearestOnly(_, _)
InheritNearestOnly(ns, p) ==
    IF p = NoBlock THEN ns
    ELSE IF p \in DOMAIN traitNamespaces
    THEN addProviders(ns, traitNamespaces[p].providers)
    ELSE InheritNearestOnly(ns, parent[p])

\* the while loop over parentPath: every ancestor that is a key of
\* traitNamespaces hands its providers, as they are now, to ns
RECURSIVE Inherited(_, _)
Inherited(ns, p) ==
    IF p = NoBlock THEN ns
    ELSE Inherited(IF p \in DOMAIN traitNamespaces
                   THEN addProviders(ns, traitNamespaces[p].providers)
                   ELSE ns,
                   parent[p])

\* -------------------------------------------- cleanString, lines 234-238
\* .replace(/\._Straits\.?/g, `.*`)
RECURSIVE replaceStraits(_)
replaceStraits(s) ==
    IF s = <<>> THEN <<>>
    ELSE IF Len(s) >= 2 /\ s[1] = "." /\ s[2] = "_Straits"
    THEN <<".*">> \o replaceStraits(
             SubSeq(s, IF Len(s) >= 3 /\ s[3] = "." THEN 4 ELSE 3, Len(s)))
    ELSE <<s[1]>> \o replaceStraits(Tail(s))

\* .replace(/_StraitsProvider:/g, `use traits * from`)
RECURSIVE replaceProvider(_)
replaceProvider(s) ==
    IF s = <<>> THEN <<>>
    ELSE IF Len(s) >= 3 /\ s[1] = "_Straits" /\ s[2] = "Provider" /\ s[3] = ":"
    THEN <<"use traits * from">> \o replaceProvider(SubSeq(s, 4, Len(s)))
    ELSE <<s[1]>> \o replaceProvider(Tail(s))

cleanString(str) == replaceProvider(replaceStraits(str))

\* the node appended to the container instead
pushContainer(container, node) == container \o <<node>>

\* path.unshiftContainer('body', node)
unshiftContainer(container, node) == <<node>> \o container

\* ------------------------------------------------------------ the inputs
Trees ==
    {f \in [Blocks -> Blocks \cup {NoBlock}] :
        /\ f[Program] = NoBlock
        /\ \A b \in Blocks \ {Program} : f[b] \in Program .. (b - 1)}

\* at most MaxProviders provider statements, numbered per block in
\* document order
Placements ==
    {S \in SUBSET (Blocks \X (1 .. MaxProviders)) :
        /\ Cardinality(S) <= MaxProviders
        /\ \A p \in S : p[2] > 1 => <<p[1], p[2] - 1>> \in S}

AccessNodes ==
    {[block |-> b, kind |-> "trait", name |-> nm, key |-> NoId] :
        b \in Blocks, nm \in TraitNames}
    \cup {[block |-> b, kind |-> "traitComputed", name |-> KeyName, key |-> NoId] :
        b \in Blocks}

\* Up to MaxAccess accesses in document order.  Exchanging two accesses only
\* renumbers the generated identifiers, so one order stands for the lists
\* with the same accesses: by block, then by name, computed ones last.
Rank(a) ==
    a.block * (Len(TraitNameList) + 1)
      + (IF a.kind = "traitComputed" THEN Len(TraitNameList) + 1
         ELSE CHOOSE i \in DOMAIN TraitNameList : TraitNameList[i] = a.name)

AccessLists ==
    {l \in UNION {[1 .. n -> AccessNodes] : n \in 0 .. MaxAccess} :
        \A i \in DOMAIN l : i < Len(l) => Rank(l[i]) <= Rank(l[i + 1])}

Strings == UNION {[1 .. n -> Chars] : n \in 0 .. MaxStrLen}

\* raw texts of a template element; "\\x2e" is the escape sequence of a dot
TemplateRaws ==
    {<<"x">>, <<"x", ".", "_Straits", ".", "x">>,
     <<"_Straits", "Provider", ":", "x">>, <<"\\x2e", "_Straits", "x">>}

\* the cooked text of a raw text: the escape sequences are interpreted
Cooked(raw) == [i \in DOMAIN raw |-> IF raw[i] = "\\x2e" THEN "." ELSE raw[i]]

InitPass ==
    /\ body = <<[type |-> "Original", id |-> NoId]>>
    /\ decls = {}
    /\ input = Tree
    /\ firstOutput = Tree
    /\ run = 1
    /\ pc = "registry"
    /\ nsOrder = <<>>
    /\ traitNamespaces = <<>>
    /\ getSymbolIdentifier = NoId
    /\ uidCount = 0
    /\ idx = 1

InitIdle ==
    /\ targetSymName = "one"
    /\ symbolSets = <<>>
    /\ symbol = "undefined"
    /\ ri = 1
    /\ rpc = "idle"

Init ==
    /\ parent \in Trees
    /\ stmts \in Placements
    /\ acc \in AccessLists
    /\ strLit = <<"x">>
    /\ tplLit = [raw |-> <<"x">>, cooked |-> <<"x">>]
    /\ InitPass
    /\ InitIdle

\* ------------------------------------------- the Program visitor, 97-273
\* the blocks that directly hold a provider statement
ProviderBlocks == {p[1] : p \in stmts}

\* the first provider statement of block b in document order
FirstProvider(b) ==
    CHOOSE p \in stmts : p[1] = b /\ \A q \in stmts : q[1] = b => p[2] <= q[2]

\* The orders in which path.traverse can meet the first provider statement
\* of every block: the blocks inside one block are met one after the other.
TraversalOrders ==
    {o \in [1 .. Cardinality(ProviderBlocks) -> ProviderBlocks] :
        /\ \A i, j \in DOMAIN o : i # j => o[i] # o[j]
        /\ \A c \in Blocks :
             \A i, j, k \in DOMAIN o :
                (i < j /\ j < k /\ o[i] \in Subtree(c) /\ o[k] \in Subtree(c))
                   => o[j] \in Subtree(c)}

\* defaultGet, then addProvider, for every `_StraitsProvider` statement
defaultGet(b) ==
    addProviders(TraitNamespace(FirstProvider(b)), {p \in stmts : p[1] = b})

\* step 1, lines 98-114
Registry ==
    /\ pc = "registry"
    /\ \E o \in TraversalOrders :
         /\ nsOrder' = o
         /\ traitNamespaces' = [b \in ProviderBlocks |-> defaultGet(b)]
         /\ pc' = IF Len(o) = 0 THEN "return" ELSE "getSymbol"
    /\ getSymbolIdentifier' = generateUidIdentifier("getSymbol", uidCount)
    /\ uidCount' = uidCount + 1
    /\ idx' = 1
    /\ UNCHANGED <<treeVars, input, run, firstOutput, rtVars>>

\* lines 119-122: no namespace, finalCheck and return
EarlyReturn ==
    /\ pc = "return"
    /\ pc' = finalCheck(acc)
    /\ UNCHANGED <<treeVars, input, run, firstOutput, nsOrder, traitNamespaces,
                   getSymbolIdentifier, uidCount, idx, rtVars>>

\* lines 125-143: the resolver function goes to the start of the unit
InsertGetSymbol ==
    /\ pc = "getSymbol"
    /\ body' = unshiftContainer(body,
                   [type |-> "FunctionDeclaration", id |-> getSymbolIdentifier])
    /\ pc' = "inherit"
    /\ UNCHANGED <<parent, stmts, acc, decls, strLit, tplLit, input, run,
                   firstOutput, nsOrder, traitNamespaces, getSymbolIdentifier,
                   uidCount, idx, rtVars>>

\* the for-of loops go through the Map in insertion order
NextLoop(phase, after) ==
    IF idx < Len(nsOrder)
    THEN pc' = phase /\ idx' = idx + 1
    ELSE pc' = after /\ idx' = 1

\* step 2, lines 146-157, one iteration
Inherit ==
    /\ pc = "inherit"
    /\ LET b == nsOrder[idx]
       IN  traitNamespaces' =
             [traitNamespaces EXCEPT ![b] = Inherited(@, parent[b])]
    /\ NextLoop("inherit", "rewrite")
    /\ UNCHANGED <<treeVars, input, run, firstOutput, nsOrder,
                   getSymbolIdentifier, uidCount, rtVars>>

\* step 3, lines 161-223, one iteration
Rewrite ==
    /\ pc = "rewrite"
    /\ LET b == nsOrder[idx]
           st == traverse([acc |-> acc, symbols |-> traitNamespaces[b].symbols,
                           uid |-> uidCount], 1, TraversedBlocks(b))
       IN  /\ acc' = st.acc
           /\ traitNamespaces' =
                [traitNamespaces EXCEPT ![b].symbols = st.symbols]
           /\ uidCount' = st.uid
    /\ NextLoop("rewrite", "finalize")
    /\ UNCHANGED <<parent, stmts, body, decls, strLit, tplLit, input, run,
                   firstOutput, nsOrder, getSymbolIdentifier, rtVars>>

\* lines 225-227: finalize for every namespace
Finalize ==
    /\ pc = "finalize"
    /\ decls' = decls \cup
                  UNION {finalize(traitNamespaces[b], getSymbolIdentifier) :
                           b \in Range(nsOrder)}
    /\ pc' = "remove"
    /\ UNCHANGED <<parent, stmts, acc, body, strLit, tplLit, input, run,
                   firstOutput, nsOrder, traitNamespaces, getSymbolIdentifier,
                   uidCount, idx, rtVars>>

\* remove for the namespaces from position i of the Map on
RECURSIVE removeFrom(_, _)
removeFrom(tree, i) ==
    IF i > Len(nsOrder) THEN tree
    ELSE removeFrom(remove(traitNamespaces[nsOrder[i]], tree), i + 1)

\* lines 228-230: remove for every namespace
Remove ==
    /\ pc = "remove"
    /\ stmts' = removeFrom(stmts, 1)
    /\ pc' = "literals"
    /\ UNCHANGED <<parent, acc, body, decls, strLit, tplLit, input, run,
                   firstOutput, nsOrder, traitNamespaces, getSymbolIdentifier,
                   uidCount, idx, rtVars>>

\* the StringLiteral visitor, lines 240-252
StringLiteral(str) ==
    IF cleanString(str) = str THEN str ELSE cleanString(str)

\* the TemplateElement visitor, lines 253-269
TemplateElement(value) ==
    LET newValue == [raw |-> cleanString(value.raw),
                     cooked |-> cleanString(value.cooked)]
    IN  IF newValue.raw = value.raw \/ newValue.cooked = value.cooked
        THEN value ELSE newValue

\* lines 239-270
PatchLiterals ==
    /\ pc = "literals"
    /\ strLit' = StringLiteral(strLit)
    /\ tplLit' = TemplateElement(tplLit)
    /\ pc' = "finalCheck"
    /\ UNCHANGED <<parent, stmts, acc, body, decls, input, run, firstOutput,
                   nsOrder, traitNamespaces, getSymbolIdentifier, uidCount,
                   idx, rtVars>>

\* line 272
FinalCheck ==
    /\ pc = "finalCheck"
    /\ pc' = finalCheck(acc)
    /\ UNCHANGED <<treeVars, input, run, firstOutput, nsOrder, traitNamespaces,
                   getSymbolIdentifier, uidCount, idx, rtVars>>

Next ==
    \/ Registry
    \/ EarlyReturn
    \/ InsertGetSymbol
    \/ Inherit
    \/ Rewrite
    \/ Finalize
    \/ Remove
    \/ PatchLiterals
    \/ FinalCheck

Spec == Init /\ [][Next]_vars

\* ------------------------------------------------ the pass run once more
\* the visitor is given the tree its first run produced
SecondRun ==
    /\ pc = "done"
    /\ run = 1
    /\ run' = 2
    /\ firstOutput' = Tree
    /\ input' = Tree
    /\ pc' = "registry"
    /\ nsOrder' = <<>>
    /\ traitNamespaces' = <<>>
    /\ idx' = 1
    /\ UNCHANGED <<treeVars, getSymbolIdentifier, uidCount, rtVars>>

NextRerun == Next \/ SecondRun

SpecRerun == Init /\ [][NextRerun]_vars

\* ------------------------------------- units that differ in their literals
InitLiteral ==
    /\ parent \in Trees
    /\ stmts \in SUBSET {<<Program, 1>>}
    /\ acc \in {l \in AccessLists :
                  Len(l) <= 1 /\ \A i \in DOMAIN l : l[i].block = Program}
    /\ strLit \in Strings
    /\ tplLit \in {[raw |-> r, cooked |-> Cooked(r)] : r \in TemplateRaws}
    /\ InitPass
    /\ InitIdle

SpecLiteral == InitLiteral /\ [][Next]_vars

\* ------------------------------------------- GET_SYMBOL, lines 126-140
Undefined == [type |-> "undefined", v |-> 0]
Values ==
    {Undefined, [type |-> "string", v |-> 1],
     [type |-> "symbol", v |-> 1], [type |-> "symbol", v |-> 2]}

typeof(v) == v.type

\* !! v
Truthy(v) == typeof(v) # "undefined"

\* a test of the value itself instead of its type
IsCandidateTruthy(v) == Truthy(v)

\* typeof symbolSet[targetSymName] === 'symbol'
IsCandidate(v) == typeof(v) = "symbol"

InitResolver ==
    /\ parent = [b \in Blocks |-> IF b = Program THEN NoBlock ELSE Program]
    /\ stmts = {}
    /\ acc = <<>>
    /\ strLit = <<"x">>
    /\ tplLit = [raw |-> <<"x">>, cooked |-> <<"x">>]
    /\ body = <<[type |-> "Original", id |-> NoId]>>
    /\ decls = {}
    /\ input = Tree
    /\ firstOutput = Tree
    /\ run = 1
    /\ pc = "done"
    /\ nsOrder = <<>>
    /\ traitNamespaces = <<>>
    /\ getSymbolIdentifier = NoId
    /\ uidCount = 0
    /\ idx = 1
    /\ targetSymName \in TraitNames
    /\ symbolSets \in UNION {[1 .. n -> [TraitNames -> Values]] :
                               n \in 0 .. MaxSymbolSets}
    /\ symbol = Undefined
    /\ ri = 1
    /\ rpc = "forEach"

\* one call of the forEach callback, lines 128-135
ForEach ==
    /\ rpc = "forEach"
    /\ ri <= Len(symbolSets)
    /\ LET v == symbolSets[ri][targetSymName]
       IN  IF IsCandidate(v)
           THEN IF Truthy(symbol)
                THEN rpc' = "thrownMultiple" /\ UNCHANGED <<symbol, ri>>
                ELSE symbol' = v /\ ri' = ri + 1 /\ UNCHANGED rpc
           ELSE ri' = ri + 1 /\ UNCHANGED <<symbol, rpc>>
    /\ UNCHANGED <<treeVars, passVars, targetSymName, symbolSets>>

\* lines 136-139
Return ==
    /\ rpc = "forEach"
    /\ ri > Len(symbolSets)
    /\ rpc' = IF ~Truthy(symbol) THEN "thrownNone" ELSE "returned"
    /\ UNCHANGED <<treeVars, passVars, targetSymName, symbolSets, symbol, ri>>

NextResolver == ForEach \/ Return

SpecResolver == InitResolver /\ [][NextResolver]_vars

\* ================================================================ claims
\* What the claims speak of, read off the unit the run started from.

\* the blocks of the input that directly contain a provider statement
InputProviderBlocks == {p[1] : p \in input.stmts}

\* the innermost block, from b outwards, that directly contains a provider
\* statement; NoBlock when no enclosing block does
RECURSIVE NearestNamespace(_)
NearestNamespace(b) ==
    IF b = NoBlock THEN NoBlock
    ELSE IF b \in InputProviderBlocks THEN b
    ELSE NearestNamespace(parent[b])

Accesses == DOMAIN input.acc

Guarded(i) == NearestNamespace(input.acc[i].block) # NoBlock

LiteralAccess(i) == input.acc[i].kind = "trait"

ComputedAccess(i) == input.acc[i].kind = "traitComputed"

\* the provider statements placed directly in b or in a block around b
VisibleProviders(b) == {p \in input.stmts : p[1] \in PathChain(b)}

DeclsOf(b) == {d \in decls : d.before[1] = b}

AfterInherit ==
    pc \in {"rewrite", "finalize", "remove", "literals", "finalCheck", "done"}

AfterRewrite == pc \in {"finalize", "remove", "literals", "finalCheck", "done"}

AfterFinalize == pc \in {"remove", "literals", "finalCheck", "done"}

ResolverCount ==
    Cardinality({i \in DOMAIN body : body[i].type = "FunctionDeclaration"})

\* the text holds one of the two placeholder spellings
HasPlaceholder(s) ==
    \E i \in DOMAIN s :
       \/ i + 1 <= Len(s) /\ s[i] = "." /\ s[i + 1] = "_Straits"
       \/ i + 2 <= Len(s) /\ s[i] = "_Straits" /\ s[i + 1] = "Provider"
                          /\ s[i + 2] = ":"

\* C1: when the pass completes, the tree holds no `_Straits` identifier and
\* no `_StraitsProvider` statement.
C1_NoMarkerLeft ==
    pc = "done" =>
       /\ \A i \in DOMAIN acc : ~IsMarker(acc[i])
       /\ stmts = {}

\* C2: a unit with a trait access that no enclosing block's provider
\* statement governs does not complete: the pass ends with the error.
C2_UnguardedRejected ==
    (\E i \in Accesses : ~Guarded(i)) => pc # "done"

C2_Witness ==
    /\ pc = "error"
    /\ input.stmts # {}
    /\ \E i \in Accesses : ~Guarded(i)

\* C3: after the inheritance loop, whatever the order of the namespaces, a
\* namespace holds exactly the provider statements of its own block and of
\* the blocks around it, and every resolver call emitted for it is given
\* exactly their expressions.
C3_InheritedProviders ==
    AfterInherit =>
       /\ DOMAIN traitNamespaces = InputProviderBlocks
       /\ \A b \in DOMAIN traitNamespaces :
             traitNamespaces[b].providers = VisibleProviders(b)
       /\ \A d \in decls :
             d.args = {Expression(p) : p \in VisibleProviders(d.before[1])}

C3_Witness ==
    /\ pc = "done"
    /\ Len(nsOrder) >= 3
    /\ parent[nsOrder[1]] = nsOrder[2]
    /\ parent[nsOrder[2]] = nsOrder[3]
    /\ \E d \in DeclsOf(nsOrder[1]) : Cardinality(d.args) >= 3

\* C4: once every namespace is finalized, the names declared for a
\* namespace are the literal trait names accessed under it and outside the
\* namespaces nested in it, one declaration per name, and every such access
\* has the declared identifier of its name as its key.
C4_DeclarationsPerName ==
    AfterFinalize =>
       \A b \in InputProviderBlocks :
          LET mine == {i \in Accesses :
                         LiteralAccess(i)
                         /\ NearestNamespace(input.acc[i].block) = b}
          IN  /\ {d.name : d \in DeclsOf(b)} = {input.acc[i].name : i \in mine}
              /\ \A d, e \in DeclsOf(b) : d.name = e.name => d = e
              /\ \A i \in mine :
                    /\ acc[i].kind = "dynamic"
                    /\ \E d \in DeclsOf(b) :
                          d.name = input.acc[i].name /\ d.id = acc[i].key

C4_Witness ==
    /\ pc = "done"
    /\ \E i, j \in Accesses :
          /\ LiteralAccess(i) /\ LiteralAccess(j)
          /\ input.acc[i].block # input.acc[j].block
          /\ input.acc[i].name = input.acc[j].name
          /\ acc[i].key = acc[j].key
          /\ \E d \in decls : d.id = acc[i].key

\* C7 as written: a unit gets the resolver function when some namespace
\* requests a trait name, and none otherwise.
C7_ResolverOnlyOnRequest ==
    pc = "done" =>
       ResolverCount =
          (IF \E i \in Accesses : LiteralAccess(i) /\ Guarded(i) THEN 1 ELSE 0)

\* C7 amended: a unit gets the resolver function, once and as its first
\* node, when it contains a provider statement, whether or not a trait name
\* is requested, and none otherwise.
C7_ResolverPerProviderUnit ==
    /\ ResolverCount <= 1
    /\ pc = "done" =>
          IF input.stmts # {}
          THEN ResolverCount = 1 /\ body[1].type = "FunctionDeclaration"
          ELSE ResolverCount = 0

C7_Witness ==
    /\ pc = "done"
    /\ input.stmts # {}
    /\ \A i \in Accesses : ~LiteralAccess(i)
    /\ ResolverCount = 1

\* C8: every literal trait access under a namespace ends up keyed by the
\* identifier memoized for its name in its nearest namespace, which is the
\* identifier of no other namespace; an access changes only in the rewrite
\* iteration of its nearest namespace, while it still is a marker.
C8_RewrittenByNearest ==
    /\ [](AfterRewrite =>
            \A i \in Accesses :
               (LiteralAccess(i) /\ Guarded(i)) =>
                  LET n == NearestNamespace(input.acc[i].block)
                      name == input.acc[i].name
                  IN  /\ acc[i].kind = "dynamic"
                      /\ name \in DOMAIN traitNamespaces[n].symbols
                      /\ acc[i].key = traitNamespaces[n].symbols[name]
                      /\ \A b \in DOMAIN traitNamespaces \ {n} :
                            name \in DOMAIN traitNamespaces[b].symbols =>
                               traitNamespaces[b].symbols[name] # acc[i].key)
    /\ [][\A i \in DOMAIN acc :
             acc'[i] # acc[i] =>
                /\ pc = "rewrite"
                /\ IsMarker(acc[i])
                /\ NearestNamespace(acc[i].block) = nsOrder[idx]]_vars

C8_Witness ==
    /\ pc = "done"
    /\ \E i, j \in Accesses :
          /\ LiteralAccess(i) /\ LiteralAccess(j)
          /\ input.acc[i].name = input.acc[j].name
          /\ NearestNamespace(input.acc[i].block) # input.acc[i].block
          /\ NearestNamespace(input.acc[j].block)
                \in PathChain(parent[NearestNamespace(input.acc[i].block)])
          /\ acc[i].key # acc[j].key
          /\ acc[i].kind = "dynamic" /\ acc[j].kind = "dynamic"

\* C9: a computed trait access under a namespace becomes plain access with
\* the same key expression; it puts no name in any namespace, no
\* declaration is emitted for it, and it alone never makes the pass fail.
C9_ComputedFallback ==
    /\ AfterRewrite =>
          /\ \A i \in Accesses :
                (ComputedAccess(i) /\ Guarded(i)) =>
                   acc[i] = [input.acc[i] EXCEPT !.kind = "plain"]
          /\ \A b \in DOMAIN traitNamespaces :
                DOMAIN traitNamespaces[b].symbols \subseteq
                   {input.acc[i].name : i \in {j \in Accesses : LiteralAccess(j)}}
          /\ \A d \in decls : d.name # KeyName
    /\ pc = "error" => \E i \in Accesses : ~Guarded(i)

C9_Witness ==
    /\ pc = "done"
    /\ decls = {}
    /\ \E i \in Accesses : ComputedAccess(i) /\ acc[i].kind = "plain"

\* C10: when the pass completes, no string literal and no template element
\* holds a placeholder spelling any more.
C10_LiteralsPatched ==
    pc = "done" =>
       /\ ~HasPlaceholder(strLit)
       /\ ~HasPlaceholder(tplLit.raw)
       /\ ~HasPlaceholder(tplLit.cooked)

\* C6: the second run leaves the first run's output as it is and raises no
\* error.
C6_SecondRunNoOp ==
    run = 2 => (Tree = firstOutput /\ pc # "error")

\* C5: GET_SYMBOL returns the one candidate when exactly one provider has a
\* symbol at the name, throws `offered by multiple symbol sets` when two or
\* more have, and throws `No symbol set is providing` when none has.
C5_ResolverOutcome ==
    LET candidates ==
          {i \in DOMAIN symbolSets :
              symbolSets[i][targetSymName].type = "symbol"}
    IN  /\ rpc = "returned" =>
             /\ Cardinality(candidates) = 1
             /\ \A i \in candidates : symbol = symbolSets[i][targetSymName]
        /\ rpc = "thrownMultiple" => Cardinality(candidates) >= 2
        /\ rpc = "thrownNone" => candidates = {}

C5_Witness ==
    /\ rpc = "thrownMultiple"
    /\ \E i, j \in DOMAIN symbolSets :
          /\ i < j
          /\ symbolSets[i][targetSymName] = symbolSets[j][targetSymName]
    /\ \E i \in DOMAIN symbolSets :
          symbolSets[i][targetSymName].type = "string"
====
